---------------------------- MODULE Spec2Model ----------------------------
(***************************************************************************)
(* Model of the swarm placement simulation: rectangular modules            *)
(* (src/module.py) inside a shrinking rectangular environment              *)
(* (src/environment.py), driven by the step loop of SimulationEngine.run   *)
(* (src/engine.py; the stall-count variant of the loop is src/main.py).    *)
(*                                                                         *)
(* Number representation.  Module positions and environment bounds are    *)
(* Python ints.  Rectangle edges are position +/- dimension/2, i.e.       *)
(* multiples of 1/2.  An edge coordinate e is represented by the integer  *)
(* 2*e ("doubled"), an area a by the integer 4*a ("quadrupled").  Every   *)
(* comparison the code makes is between two edges or between two areas,   *)
(* so it is preserved.  The midpoint of two edges is a multiple of 1/4;   *)
(* Python's round() of it (round half to even) is RoundQuarter below.     *)
(***************************************************************************)
EXTENDS Integers, Sequences, FiniteSets, TLC

(***************************************************************************)
(* Bounds of the model.                                                    *)
(***************************************************************************)
MaxModules == 2      \* modules registered before a run: 0..MaxModules
MaxCoord == 3        \* initial module positions: (0..MaxCoord) x (0..MaxCoord)
MaxDim == 2          \* module width and height: 1..MaxDim
MaxField == 3        \* initial environment: (0,0,fw,fh), fw, fh in 1..MaxField
MaxSteps == 2        \* run(steps): steps in 0..MaxSteps
MaxSide == 6         \* SpecField: initial environment sides in 1..MaxSide
MaxOrigin == 1       \* SpecField: initial min_x, min_y in 0..MaxOrigin
MaxAmount == 3       \* SpecField: shrink_amount in 1..MaxAmount
MaxSetupModules == 1 \* SpecSetup: modules registered before the run
MaxQuarter == 4      \* SpecSetup: position arguments 0, 1/4, .. MaxQuarter/4
MaxNear == 6         \* SpecExample: module positions 0..MaxNear, next to a corner
MaxMainSteps == 5    \* SpecMain: run(steps) of the stall-count loop, steps in 0..MaxMainSteps

(***************************************************************************)
(* Program constants.                                                      *)
(***************************************************************************)
QuarterTurn == 90    \* degrees added by a rotation
HalfTurn == 180      \* orientation is kept modulo 180
ShrinkStep == 1      \* shrink_amount the step loop passes to shrink_bounds
UnitStep == 1        \* value of a move action
StallLimit == 2      \* stall-count loop: unchanged rounds before a shrink
ExampleSide == 100   \* the example environment (0, 0, 100, 100)
ExampleSize == 10    \* default width and height of a module

None == "None"

Min2(a, b) == IF a <= b THEN a ELSE b

Max2(a, b) == IF a >= b THEN a ELSE b

(***************************************************************************)
(* int(round(q/4)) for an integer q: Python 3 rounds to the nearest        *)
(* integer and, half way between two, to the even one.                     *)
(***************************************************************************)
RoundQuarter(q) ==
  LET f == q \div 4
      r == q % 4
  IN  IF r < 2 THEN f
      ELSE IF r > 2 THEN f + 1
      ELSE IF f % 2 = 0 THEN f ELSE f + 1

(***************************************************************************)
(* ResponsiveModule.__init__: a module record.  position is <<x, y>>.     *)
(***************************************************************************)
NewModule(module_id, x, y, width, height) ==
  [module_id |-> module_id, position |-> <<x, y>>,
   width |-> width, height |-> height, orientation |-> 0]

(* ResponsiveModule.get_width_height *)
get_width_height(m) ==
  IF m.orientation % HalfTurn = 0 THEN <<m.width, m.height>>
                                  ELSE <<m.height, m.width>>

(* ResponsiveModule.get_corners: the four corners, doubled coordinates *)
get_corners(m) ==
  LET x == m.position[1]
      y == m.position[2]
      w == IF m.orientation % HalfTurn = 0 THEN m.width ELSE m.height
      h == IF m.orientation % HalfTurn = 0 THEN m.height ELSE m.width
  IN  << <<2 * x - w, 2 * y - h>>, <<2 * x + w, 2 * y - h>>,
         <<2 * x + w, 2 * y + h>>, <<2 * x - w, 2 * y + h>> >>

(* the min and max over the corners' xs and ys *)
BoundsOfCorners(c) ==
  << Min2(Min2(c[1][1], c[2][1]), Min2(c[3][1], c[4][1])),
     Min2(Min2(c[1][2], c[2][2]), Min2(c[3][2], c[4][2])),
     Max2(Max2(c[1][1], c[2][1]), Max2(c[3][1], c[4][1])),
     Max2(Max2(c[1][2], c[2][2]), Max2(c[3][2], c[4][2])) >>

(* ResponsiveModule.get_bounds: <<left, bottom, right, top>>, doubled *)
get_bounds(m) == BoundsOfCorners(get_corners(m))

(* the product of the two extents, without the test that both are positive *)
RectOverlap_unguarded(r1, r2) ==
  (Min2(r1[3], r2[3]) - Max2(r1[1], r2[1]))
  * (Min2(r1[4], r2[4]) - Max2(r1[2], r2[2]))

(* lines 104-108 on the two rectangles: quadrupled area *)
RectOverlap(r1, r2) ==
  IF Min2(r1[3], r2[3]) - Max2(r1[1], r2[1]) > 0
     /\ Min2(r1[4], r2[4]) - Max2(r1[2], r2[2]) > 0
  THEN (Min2(r1[3], r2[3]) - Max2(r1[1], r2[1]))
       * (Min2(r1[4], r2[4]) - Max2(r1[2], r2[2]))
  ELSE 0

(* ResponsiveModule.overlap_area_with *)
overlap_area_with(a, b) == RectOverlap(get_bounds(a), get_bounds(b))

(* the strip beyond the right edge is measured from min_x, not from max_x *)
RectOutside_wrong_edge(r, bnd) ==
    (IF r[1] < 2 * bnd[1] THEN (2 * bnd[1] - r[1]) * (r[4] - r[2]) ELSE 0)
  + (IF r[3] > 2 * bnd[1] THEN (r[3] - 2 * bnd[1]) * (r[4] - r[2]) ELSE 0)
  + (IF r[2] < 2 * bnd[2] THEN (r[3] - r[1]) * (2 * bnd[2] - r[2]) ELSE 0)
  + (IF r[4] > 2 * bnd[4] THEN (r[3] - r[1]) * (r[4] - 2 * bnd[4]) ELSE 0)

(* the corner-safe area: the rectangle's area less its part inside the bounds *)
RectOutside_clamped(r, bnd) ==
  (r[3] - r[1]) * (r[4] - r[2])
  - (IF Min2(r[3], 2 * bnd[3]) - Max2(r[1], 2 * bnd[1]) > 0
        /\ Min2(r[4], 2 * bnd[4]) - Max2(r[2], 2 * bnd[2]) > 0
     THEN (Min2(r[3], 2 * bnd[3]) - Max2(r[1], 2 * bnd[1]))
          * (Min2(r[4], 2 * bnd[4]) - Max2(r[2], 2 * bnd[2]))
     ELSE 0)

(* lines 116-129 on the rectangle r = <<left, bottom, right, top>> (doubled)
   and the environment's bounds bnd = <<min_x, min_y, max_x, max_y>> (true
   coordinates): quadrupled area *)
RectOutside(r, bnd) ==
    (IF r[1] < 2 * bnd[1] THEN (2 * bnd[1] - r[1]) * (r[4] - r[2]) ELSE 0)
  + (IF r[3] > 2 * bnd[3] THEN (r[3] - 2 * bnd[3]) * (r[4] - r[2]) ELSE 0)
  + (IF r[2] < 2 * bnd[2] THEN (r[3] - r[1]) * (2 * bnd[2] - r[2]) ELSE 0)
  + (IF r[4] > 2 * bnd[4] THEN (r[3] - r[1]) * (r[4] - 2 * bnd[4]) ELSE 0)

(* ResponsiveModule.overlap_with_environment *)
overlap_with_environment(m, bnd) == RectOutside(get_bounds(m), bnd)

(* sum(self.overlap_area_with(other) for other in environment.modules
       if other is not self), with self = ms[k] in the state me *)
RECURSIVE SumOverlap(_, _, _, _)
SumOverlap(ms, k, me, j) ==
  IF j > Len(ms) THEN 0
  ELSE (IF j = k THEN 0 ELSE overlap_area_with(me, ms[j]))
       + SumOverlap(ms, k, me, j + 1)

total_overlap(ms, k, me) == SumOverlap(ms, k, me, 1)

(***************************************************************************)
(* ResponsiveModule.evaluate_free_space for self = me at index k: the      *)
(* loop over the other modules, carrying acc = <<left, bottom, right,      *)
(* top>> (doubled), started from the environment bounds.                   *)
(***************************************************************************)
(* lines 261-272 for one other module with edges o = <<o_left, o_bottom,
   o_right, o_top>>, self at <<x, y>> (doubled) *)
Restrict(acc, x, y, o) ==
  LET rowhit == (o[2] < y /\ y < o[4]) \/ (y = o[2] \/ y = o[4])
      colhit == (o[1] < x /\ x < o[3]) \/ (x = o[1] \/ x = o[3])
  IN  << IF rowhit /\ o[3] <= x /\ o[3] > acc[1] THEN o[3] ELSE acc[1],
         IF colhit /\ o[4] <= y /\ o[4] > acc[2] THEN o[4] ELSE acc[2],
         IF rowhit /\ o[1] >= x /\ o[1] < acc[3] THEN o[1] ELSE acc[3],
         IF colhit /\ o[2] >= y /\ o[2] < acc[4] THEN o[2] ELSE acc[4] >>

(* lines 254-259: ox -/+ ow / 2, oy -/+ oh / 2 *)
EdgesOf(pos, wh) ==
  <<2 * pos[1] - wh[1], 2 * pos[2] - wh[2], 2 * pos[1] + wh[1], 2 * pos[2] + wh[2]>>

RECURSIVE FreeSpaceLoop(_, _, _, _, _)
FreeSpaceLoop(ms, k, me, j, acc) ==
  IF j > Len(ms) THEN acc
  ELSE FreeSpaceLoop(ms, k, me, j + 1,
         IF j = k THEN acc
         ELSE Restrict(acc, 2 * me.position[1], 2 * me.position[2],
                       EdgesOf(ms[j].position, get_width_height(ms[j]))))

evaluate_free_space(ms, k, me, bnd) ==
  FreeSpaceLoop(ms, k, me, 1, <<2 * bnd[1], 2 * bnd[2], 2 * bnd[3], 2 * bnd[4]>>)

(***************************************************************************)
(* ResponsiveModule.choose_best_action for self = ms[k].  The method       *)
(* mutates self while it tries things and reverts; the result carries, in  *)
(* "self", the module as the method leaves it.  cur is <<current_overlap,  *)
(* current_boundary_overlap>>.                                             *)
(***************************************************************************)
Directions ==
  << <<"move_right", 1, 0>>, <<"move_left", -1, 0>>,
     <<"move_up", 0, 1>>, <<"move_down", 0, -1>> >>

MoveActions == {Directions[d][1] : d \in 1..4}

(* lines 175-178: self moved by direction d, scored *)
MoveScore(ms, k, moved, bnd) ==
  total_overlap(ms, k, moved) + overlap_with_environment(moved, bnd)

(* a unit step that only ties the best score is kept too *)
KeepBest_ties(best, action, score) ==
  IF score <= best.score THEN [action |-> action, score |-> score] ELSE best

(* lines 179-181 *)
KeepBest(best, action, score) ==
  IF score < best.score THEN [action |-> action, score |-> score] ELSE best

(* the for loop over directions: best is [action, score] *)
RECURSIVE MoveLoop(_, _, _, _, _, _, _)
MoveLoop(ms, k, me, bnd, orig_pos, d, best) ==
  IF d > Len(Directions) THEN best
  ELSE MoveLoop(ms, k, me, bnd, orig_pos, d + 1,
         KeepBest(best, Directions[d][1],
                  MoveScore(ms, k,
                            [me EXCEPT !.position = <<orig_pos[1] + Directions[d][2],
                                                      orig_pos[2] + Directions[d][3]>>],
                            bnd)))

(* lines 184-187 *)
MoveResult(best, me) ==
  IF best.action # None
  THEN [action |-> best.action, value |-> UnitStep, self |-> me]
  ELSE [action |-> None, value |-> None, self |-> me]

(* the best score starts at 0, not at the current combined cost *)
unit_step_trial_zero_best(ms, k, me, bnd, cur) ==
  MoveResult(MoveLoop(ms, k, me, bnd, me.position, 1,
                      [action |-> None, score |-> 0]),
             [me EXCEPT !.position = me.position])

(* lines 165-187: the unit-step trial, taken when rotation and centering
   were not; every iteration ends with self.position = orig_pos *)
unit_step_trial(ms, k, me, bnd, cur) ==
  MoveResult(MoveLoop(ms, k, me, bnd, me.position, 1,
                      [action |-> None, score |-> cur[1] + cur[2]]),
             [me EXCEPT !.position = me.position])

(* lines 155-157 *)
CenterOf(free) ==
  <<RoundQuarter(free[1] + free[3]), RoundQuarter(free[2] + free[4])>>

(* the position is not put back after the centering trial *)
center_trial_at_no_revert(ms, k, me, bnd, cur, center) ==
  IF total_overlap(ms, k, [me EXCEPT !.position = center]) < cur[1]
     \/ overlap_with_environment([me EXCEPT !.position = center], bnd) < cur[2]
  THEN [action |-> "center", value |-> center, self |-> [me EXCEPT !.position = center]]
  ELSE unit_step_trial(ms, k, [me EXCEPT !.position = center], bnd, cur)

(* lines 157-163 with the centre computed; orig_pos = me.position *)
center_trial_at(ms, k, me, bnd, cur, center) ==
  IF total_overlap(ms, k, [me EXCEPT !.position = center]) < cur[1]
     \/ overlap_with_environment([me EXCEPT !.position = center], bnd) < cur[2]
  THEN [action |-> "center", value |-> center,
        self |-> [[me EXCEPT !.position = center] EXCEPT !.position = me.position]]
  ELSE unit_step_trial(ms, k,
                       [[me EXCEPT !.position = center] EXCEPT !.position = me.position],
                       bnd, cur)

(* lines 152-163: the centering trial, taken when rotation was not *)
center_trial(ms, k, me, bnd, cur) ==
  center_trial_at(ms, k, me, bnd, cur, CenterOf(evaluate_free_space(ms, k, me, bnd)))

(* the orientation is kept modulo a full turn *)
Toggle_full_turn(o) == (o + QuarterTurn) % (2 * HalfTurn)

Toggle(o) == (o + QuarterTurn) % HalfTurn

(* the centering trial is made before the rotation trial *)
rotation_trial_center_first(ms, k, me, bnd, cur) ==
  IF total_overlap(ms, k, [me EXCEPT !.position =
                             CenterOf(evaluate_free_space(ms, k, me, bnd))]) < cur[1]
     \/ overlap_with_environment([me EXCEPT !.position =
                             CenterOf(evaluate_free_space(ms, k, me, bnd))], bnd) < cur[2]
  THEN [action |-> "center", value |-> CenterOf(evaluate_free_space(ms, k, me, bnd)),
        self |-> me]
  ELSE IF total_overlap(ms, k, [me EXCEPT !.orientation = Toggle(@)]) < cur[1]
          \/ overlap_with_environment([me EXCEPT !.orientation = Toggle(@)], bnd) < cur[2]
  THEN [action |-> "rotate", value |-> QuarterTurn, self |-> me]
  ELSE unit_step_trial(ms, k, me, bnd, cur)

(* the rotation is accepted when the sum of the two costs decreases *)
rotation_trial_combined(ms, k, me, bnd, cur) ==
  IF total_overlap(ms, k, [me EXCEPT !.orientation = Toggle(@)])
     + overlap_with_environment([me EXCEPT !.orientation = Toggle(@)], bnd)
     < cur[1] + cur[2]
  THEN [action |-> "rotate", value |-> QuarterTurn,
        self |-> [me EXCEPT !.orientation = Toggle(Toggle(@))]]
  ELSE center_trial(ms, k, [me EXCEPT !.orientation = Toggle(Toggle(@))], bnd, cur)

(* the orientation is not put back after the rotation trial *)
rotation_trial_no_revert(ms, k, me, bnd, cur) ==
  IF total_overlap(ms, k, [me EXCEPT !.orientation = Toggle(@)]) < cur[1]
     \/ overlap_with_environment([me EXCEPT !.orientation = Toggle(@)], bnd) < cur[2]
  THEN [action |-> "rotate", value |-> QuarterTurn,
        self |-> [me EXCEPT !.orientation = Toggle(@)]]
  ELSE center_trial(ms, k, [me EXCEPT !.orientation = Toggle(@)], bnd, cur)

(* lines 143-150 with the current costs computed *)
rotation_trial(ms, k, me, bnd, cur) ==
  IF total_overlap(ms, k, [me EXCEPT !.orientation = Toggle(@)]) < cur[1]
     \/ overlap_with_environment([me EXCEPT !.orientation = Toggle(@)], bnd) < cur[2]
  THEN [action |-> "rotate", value |-> QuarterTurn,
        self |-> [me EXCEPT !.orientation = Toggle(Toggle(@))]]
  ELSE center_trial(ms, k, [me EXCEPT !.orientation = Toggle(Toggle(@))], bnd, cur)

choose_best_action(ms, k, bnd) ==
  rotation_trial(ms, k, ms[k], bnd,
                 <<total_overlap(ms, k, ms[k]), overlap_with_environment(ms[k], bnd)>>)

(* a rotation swaps the stored width and height and keeps the orientation *)
apply_action_swaps_dims(c) ==
  IF c.action = "rotate"
  THEN [action |-> c.action, performed |-> TRUE,
        self |-> [c.self EXCEPT !.width = c.self.height, !.height = c.self.width]]
  ELSE IF c.action \in MoveActions
  THEN [action |-> c.action, performed |-> TRUE,
        self |-> [c.self EXCEPT !.position =
                    <<IF c.action = "move_right" THEN @[1] + c.value
                      ELSE IF c.action = "move_left" THEN @[1] - c.value ELSE @[1],
                      IF c.action = "move_up" THEN @[2] + c.value
                      ELSE IF c.action = "move_down" THEN @[2] - c.value ELSE @[2]>>]]
  ELSE IF c.action = "center"
  THEN [action |-> c.action, performed |-> TRUE,
        self |-> [c.self EXCEPT !.position = c.value]]
  ELSE [action |-> c.action, performed |-> FALSE, self |-> c.self]

(* a move shifts the module by its width instead of the value chosen *)
apply_action_moves_by_width(c) ==
  IF c.action = "rotate"
  THEN [action |-> c.action, performed |-> TRUE,
        self |-> [c.self EXCEPT !.orientation = Toggle(@)]]
  ELSE IF c.action \in MoveActions
  THEN [action |-> c.action, performed |-> TRUE,
        self |-> [c.self EXCEPT !.position =
                    <<IF c.action = "move_right" THEN @[1] + c.self.width
                      ELSE IF c.action = "move_left" THEN @[1] - c.self.width ELSE @[1],
                      IF c.action = "move_up" THEN @[2] + c.self.width
                      ELSE IF c.action = "move_down" THEN @[2] - c.self.width ELSE @[2]>>]]
  ELSE IF c.action = "center"
  THEN [action |-> c.action, performed |-> TRUE,
        self |-> [c.self EXCEPT !.position = c.value]]
  ELSE [action |-> c.action, performed |-> FALSE, self |-> c.self]

(***************************************************************************)
(* ResponsiveModule.perform_best_action for self = ms[k]: chooses again    *)
(* and applies.  Result: the action applied, the method's return value     *)
(* and the module afterwards.                                              *)
(***************************************************************************)
(* lines 194-215 for the chosen c = [action, value, self] *)
apply_action(c) ==
  IF c.action = "rotate"
  THEN [action |-> c.action, performed |-> TRUE,
        self |-> [c.self EXCEPT !.orientation = Toggle(@)]]
  ELSE IF c.action \in MoveActions
  THEN [action |-> c.action, performed |-> TRUE,
        self |-> [c.self EXCEPT !.position =
                    <<IF c.action = "move_right" THEN @[1] + c.value
                      ELSE IF c.action = "move_left" THEN @[1] - c.value ELSE @[1],
                      IF c.action = "move_up" THEN @[2] + c.value
                      ELSE IF c.action = "move_down" THEN @[2] - c.value ELSE @[2]>>]]
  ELSE IF c.action = "center"
  THEN [action |-> c.action, performed |-> TRUE,
        self |-> [c.self EXCEPT !.position = c.value]]
  ELSE [action |-> c.action, performed |-> FALSE, self |-> c.self]

perform_best_action(ms, k, bnd) == apply_action(choose_best_action(ms, k, bnd))

(* the guard admits a dimension of exactly 2 * shrink_amount *)
shrink_bounds_weak_guard(bnd, shrink_amount) ==
  IF (bnd[3] - bnd[1] >= 2 * shrink_amount) /\ (bnd[4] - bnd[2] >= 2 * shrink_amount)
  THEN <<bnd[1] + shrink_amount, bnd[2] + shrink_amount,
         bnd[3] - shrink_amount, bnd[4] - shrink_amount>>
  ELSE bnd

(* the guard asks the dimensions after the shrink to exceed 2 * shrink_amount *)
shrink_bounds_post_guard(bnd, shrink_amount) ==
  IF (bnd[3] - bnd[1] > 4 * shrink_amount) /\ (bnd[4] - bnd[2] > 4 * shrink_amount)
  THEN <<bnd[1] + shrink_amount, bnd[2] + shrink_amount,
         bnd[3] - shrink_amount, bnd[4] - shrink_amount>>
  ELSE bnd

(* each dimension is shrunk when it alone exceeds 2 * shrink_amount *)
shrink_bounds_per_dimension(bnd, shrink_amount) ==
  <<IF bnd[3] - bnd[1] > 2 * shrink_amount THEN bnd[1] + shrink_amount ELSE bnd[1],
    IF bnd[4] - bnd[2] > 2 * shrink_amount THEN bnd[2] + shrink_amount ELSE bnd[2],
    IF bnd[3] - bnd[1] > 2 * shrink_amount THEN bnd[3] - shrink_amount ELSE bnd[3],
    IF bnd[4] - bnd[2] > 2 * shrink_amount THEN bnd[4] - shrink_amount ELSE bnd[4]>>

(***************************************************************************)
(* Environment.shrink_bounds(shrink_amount): the bounds afterwards.        *)
(***************************************************************************)
shrink_bounds(bnd, shrink_amount) ==
  IF (bnd[3] - bnd[1] > 2 * shrink_amount) /\ (bnd[4] - bnd[2] > 2 * shrink_amount)
  THEN <<bnd[1] + shrink_amount, bnd[2] + shrink_amount,
         bnd[3] - shrink_amount, bnd[4] - shrink_amount>>
  ELSE bnd

(***************************************************************************)
(* engine.py lines 105-108: all_ok = all(m.is_overlap_free(env) and        *)
(* m.is_fully_inside_environment(env) for m in env.modules).               *)
(* ResponsiveModule defines neither method, so evaluating the generator's  *)
(* first element raises AttributeError; all() of no element is True.       *)
(***************************************************************************)
(* the check passes whatever the modules' state *)
all_ok_always(ms) == "True"

all_ok(ms) == IF Len(ms) = 0 THEN "True" ELSE "AttributeError"

(* engine.py lines 89-92: dead space, in true area units *)
RECURSIVE ModulesArea(_, _)
ModulesArea(ms, j) ==
  IF j > Len(ms) THEN 0
  ELSE get_width_height(ms[j])[1] * get_width_height(ms[j])[2] + ModulesArea(ms, j + 1)

(* the boundary area is taken from the bounds as the step's shrink leaves them *)
dead_space_of_after_shrink(ms, bnd) ==
  (shrink_bounds(bnd, ShrinkStep)[3] - shrink_bounds(bnd, ShrinkStep)[1])
  * (shrink_bounds(bnd, ShrinkStep)[4] - shrink_bounds(bnd, ShrinkStep)[2])
  - ModulesArea(ms, 1)

dead_space_of(ms, bnd) ==
  (bnd[3] - bnd[1]) * (bnd[4] - bnd[2]) - ModulesArea(ms, 1)

(* engine.py lines 96-103: min(area / area1, 1.0) if area1 > 0 else 0, as the
   fraction <<numerator, denominator>> of quadrupled areas *)
Fraction(area4, area1) ==
  IF area1 > 0 THEN <<Min2(area4, area1), area1>> ELSE <<0, 1>>

normalized(area4, m) ==
  Fraction(area4, 4 * get_width_height(m)[1] * get_width_height(m)[2])

(***************************************************************************)
(* State.                                                                  *)
(*   bounds, modules      Environment.bounds, Environment.modules          *)
(*   pc, steps, step, idx control of SimulationEngine.run: the argument    *)
(*                        steps, the loop variable step, the index of the  *)
(*                        next module of the pass                          *)
(*   step_actions .. outside_histories, on_step_calls                      *)
(*                        run's local histories and the snapshots handed   *)
(*                        to step_callback                                 *)
(*   prev_positions, unchanged_count   the stall-count loop's locals;      *)
(*                        prev_positions is the empty sequence for None,   *)
(*                        else the sequence of the one tuple it holds      *)
(* Observation only (no code reads them):                                  *)
(*   applied_actions      the action perform_best_action applied           *)
(*   before_act           modules just before the latest module acted      *)
(*   step_start           bounds and modules when the current step began   *)
(*   shrink_calls, shrink_amount, shrink_before                            *)
(*                        shrink_bounds calls in the current step, and the *)
(*                        argument and the bounds of the latest call       *)
(*   ever_settled         some step's pass has left every module settled   *)
(*   stall_log            per step of the stall-count loop: the positions  *)
(*                        after the step, whether shrink_bounds was        *)
(*                        called, and unchanged_count at the end           *)
(*   measured             the values the geometry calls last returned, in  *)
(*                        a sequence that is empty before the calls        *)
(***************************************************************************)
VARIABLES bounds, modules, pc, steps, step, idx,
          step_actions, action_history, dead_space_history,
          overlap_histories, outside_histories, on_step_calls,
          prev_positions, unchanged_count,
          applied_actions, before_act, step_start,
          shrink_calls, shrink_amount, shrink_before, ever_settled, measured,
          stall_log

vars == <<bounds, modules, pc, steps, step, idx,
          step_actions, action_history, dead_space_history,
          overlap_histories, outside_histories, on_step_calls,
          prev_positions, unchanged_count,
          applied_actions, before_act, step_start,
          shrink_calls, shrink_amount, shrink_before, ever_settled, measured,
          stall_log>>

histories == <<action_history, dead_space_history, overlap_histories,
               outside_histories>>

stall == <<prev_positions, unchanged_count, stall_log>>

shrinks == <<shrink_calls, shrink_amount, shrink_before>>

ModuleIds(ms) == {ms[k].module_id : k \in 1..Len(ms)}

(* every module has no overlap with another and no area outside *)
AllSettled(ms, bnd) ==
  \A k \in 1..Len(ms) :
    total_overlap(ms, k, ms[k]) = 0 /\ overlap_with_environment(ms[k], bnd) = 0

(***************************************************************************)
(* Setup (app.py lines 27-32, main.py lines 535-545): an Environment with  *)
(* its bounds, modules 0, 1, ... added in order, each at an integer        *)
(* position with positive width and height, orientation 0.                 *)
(***************************************************************************)
Coords == 0..MaxCoord

Dims == 1..MaxDim

RECURSIVE Registries(_)
Registries(n) ==
  IF n = 0 THEN {<< >>}
  ELSE {Append(ms, NewModule(n - 1, x, y, w, h)) :
          ms \in Registries(n - 1), x \in Coords, y \in Coords, w \in Dims, h \in Dims}

Setups == UNION {Registries(n) : n \in 0..MaxModules}

InitCommon ==
  /\ pc = "idle"
  /\ steps = 0
  /\ step = 0
  /\ idx = 1
  /\ step_actions = << >>
  /\ action_history = << >>
  /\ dead_space_history = << >>
  /\ overlap_histories = << >>
  /\ outside_histories = << >>
  /\ on_step_calls = << >>
  /\ prev_positions = << >>
  /\ unchanged_count = 0
  /\ stall_log = << >>
  /\ applied_actions = << >>
  /\ before_act = modules
  /\ step_start = [bounds |-> bounds, modules |-> modules]
  /\ shrink_calls = 0
  /\ shrink_amount = 0
  /\ shrink_before = bounds
  /\ ever_settled = FALSE
  /\ measured = << >>

Init ==
  /\ \E f \in 1..MaxField : bounds = <<0, 0, f, f>>
  /\ modules \in Setups
  /\ InitCommon

(***************************************************************************)
(* SimulationEngine.run(steps, step_callback = on_step), engine.py.        *)
(***************************************************************************)
(* lines 21-27, 77-80: the locals, and the head of the first iteration *)
Run(s) ==
  /\ pc = "idle"
  /\ steps' = s
  /\ step' = 0
  /\ idx' = 1
  /\ pc' = IF s > 0 THEN "pass" ELSE "done"
  /\ step_actions' = << >>
  /\ applied_actions' = << >>
  /\ action_history' = [mid \in ModuleIds(modules) |-> << >>]
  /\ dead_space_history' = << >>
  /\ overlap_histories' = [mid \in ModuleIds(modules) |-> << >>]
  /\ outside_histories' = [mid \in ModuleIds(modules) |-> << >>]
  /\ on_step_calls' = << >>
  /\ prev_positions' = << >>
  /\ step_start' = [bounds |-> bounds, modules |-> modules]
  /\ shrink_calls' = 0
  /\ UNCHANGED <<bounds, modules, unchanged_count, before_act,
                 shrink_amount, shrink_before, ever_settled, measured, stall_log>>

(* line 84 after line 82: ms1 is the registry as choose_best_action left it *)
PerformOn(ms1, done, mid) ==
  /\ modules' = [ms1 EXCEPT ![idx] = done.self]
  /\ applied_actions' = (mid :> done.action) @@ applied_actions

ChooseThenPerform(ms1, action, mid) ==
  /\ step_actions' = (mid :> action) @@ step_actions
  /\ PerformOn(ms1, perform_best_action(ms1, idx, bounds), mid)

(* both calls of line 82 and line 84 work on the registry as it was when the
   step began, not on the live one *)
ActWith_snapshot(chosen) ==
  /\ step_actions' = (modules[idx].module_id :>
                        choose_best_action(step_start.modules, idx, bounds).action)
                     @@ step_actions
  /\ PerformOn(modules, perform_best_action(step_start.modules, idx, bounds),
               modules[idx].module_id)

ActWith(chosen) ==
  ChooseThenPerform([modules EXCEPT ![idx] = chosen.self], chosen.action,
                    modules[idx].module_id)

(* lines 81-84: the next module of the pass chooses (recorded) and then
   performs (chooses again and applies) *)
ModuleAct ==
  /\ pc = "pass"
  /\ idx <= Len(modules)
  /\ ActWith(choose_best_action(modules, idx, bounds))
  /\ before_act' = modules
  /\ idx' = idx + 1
  /\ UNCHANGED <<bounds, pc, steps, step, histories, on_step_calls, stall,
                 step_start, shrinks, ever_settled, measured>>

IndexOf(ms, mid) == CHOOSE j \in 1..Len(ms) : ms[j].module_id = mid

NormalizedOverlap(ms, k) == normalized(total_overlap(ms, k, ms[k]), ms[k])

NormalizedOutside(ms, k, bnd) == normalized(overlap_with_environment(ms[k], bnd), ms[k])

(* lines 85-103: after the pass, the histories *)
RecordStep ==
  /\ pc = "pass"
  /\ idx > Len(modules)
  /\ action_history' =
       [mid \in DOMAIN action_history |->
          Append(action_history[mid],
                 IF mid \in DOMAIN step_actions THEN step_actions[mid] ELSE None)]
  /\ dead_space_history' = Append(dead_space_history, dead_space_of(modules, bounds))
  /\ overlap_histories' =
       [mid \in DOMAIN overlap_histories |->
          Append(overlap_histories[mid], NormalizedOverlap(modules, IndexOf(modules, mid)))]
  /\ outside_histories' =
       [mid \in DOMAIN outside_histories |->
          Append(outside_histories[mid],
                 NormalizedOutside(modules, IndexOf(modules, mid), bounds))]
  /\ ever_settled' = (ever_settled \/ AllSettled(modules, bounds))
  /\ pc' = "settle"
  /\ UNCHANGED <<bounds, modules, steps, step, idx, step_actions, on_step_calls,
                 stall, applied_actions, before_act, step_start, shrinks, measured>>

(* lines 105-110: the settle check and the shrink it triggers; an exception
   leaves run *)
SettleWith(ok) ==
  IF ok = "True"
  THEN /\ bounds' = shrink_bounds(bounds, ShrinkStep)
       /\ shrink_calls' = shrink_calls + 1
       /\ shrink_amount' = ShrinkStep
       /\ shrink_before' = bounds
       /\ pc' = "callback"
  ELSE /\ pc' = IF ok = "False" THEN "callback" ELSE "error"
       /\ UNCHANGED <<bounds, shrinks>>

SettleCheck ==
  /\ pc = "settle"
  /\ SettleWith(all_ok(modules))
  /\ UNCHANGED <<modules, steps, step, idx, step_actions, histories,
                 on_step_calls, stall, applied_actions, before_act, step_start,
                 ever_settled, measured>>

(* lines 112-125, then the head of the next iteration (lines 79-80) *)
Callback ==
  /\ pc = "callback"
  /\ on_step_calls' =
       Append(on_step_calls,
              [step |-> step, bounds |-> bounds, modules |-> modules,
               dead_space |-> dead_space_history[Len(dead_space_history)],
               action_history |-> action_history])
  /\ step' = step + 1
  /\ pc' = IF step + 1 < steps THEN "pass" ELSE "done"
  /\ idx' = 1
  /\ step_actions' = IF step + 1 < steps THEN << >> ELSE step_actions
  /\ applied_actions' = IF step + 1 < steps THEN << >> ELSE applied_actions
  /\ shrink_calls' = IF step + 1 < steps THEN 0 ELSE shrink_calls
  /\ step_start' = IF step + 1 < steps
                   THEN [bounds |-> bounds, modules |-> modules] ELSE step_start
  /\ UNCHANGED <<bounds, modules, steps, histories, stall, before_act,
                 shrink_amount, shrink_before, ever_settled, measured>>

Next ==
  \/ \E s \in 0..MaxSteps : Run(s)
  \/ ModuleAct
  \/ RecordStep
  \/ SettleCheck
  \/ Callback

Spec == Init /\ [][Next]_vars

(***************************************************************************)
(* SimulationEngine.run(steps) of main.py: the same module pass, and a     *)
(* shrink when the positions have not changed for StallLimit rounds.       *)
(***************************************************************************)
(* main.py lines 463, 484: tuple((module.module_id, module.position) ...) *)
positions_of(ms) == [k \in 1..Len(ms) |-> <<ms[k].module_id, ms[k].position>>]

(* main.py lines 485-488 *)
next_unchanged_count(prev, new, count) ==
  IF prev # << >> /\ new = prev[1] THEN count + 1 ELSE 0

(* the counter is not reset after the shrink *)
count_after_shrink_no_reset(count) == count

(* main.py lines 492-494: the counter after the shrink test *)
count_after_shrink(count) == IF count >= StallLimit THEN 0 ELSE count

(* main.py lines 406-410, 457-461: the locals, and the head of the first
   iteration *)
RunMain(s) ==
  /\ pc = "idle"
  /\ steps' = s
  /\ step' = 0
  /\ idx' = 1
  /\ pc' = IF s > 0 THEN "main_pass" ELSE "done"
  /\ step_actions' = << >>
  /\ applied_actions' = << >>
  /\ action_history' = [mid \in ModuleIds(modules) |-> << >>]
  /\ prev_positions' = << >>
  /\ unchanged_count' = 0
  /\ stall_log' = << >>
  /\ step_start' = [bounds |-> bounds, modules |-> modules]
  /\ shrink_calls' = 0
  /\ UNCHANGED <<bounds, modules, dead_space_history, overlap_histories,
                 outside_histories, on_step_calls, before_act, shrink_amount,
                 shrink_before, ever_settled, measured>>

(* main.py lines 469-473: the next module of the pass *)
MainModuleAct ==
  /\ pc = "main_pass"
  /\ idx <= Len(modules)
  /\ ActWith(choose_best_action(modules, idx, bounds))
  /\ before_act' = modules
  /\ idx' = idx + 1
  /\ UNCHANGED <<bounds, pc, steps, step, histories, on_step_calls, stall,
                 step_start, shrinks, ever_settled, measured>>

(* main.py lines 489-494 with the new count computed, then the head of the
   next iteration *)
StallWith(count) ==
  /\ prev_positions' = <<positions_of(modules)>>
  /\ unchanged_count' = count_after_shrink(count)
  /\ bounds' = IF count >= StallLimit THEN shrink_bounds(bounds, ShrinkStep) ELSE bounds
  /\ shrink_calls' = IF count >= StallLimit THEN 1 ELSE 0
  /\ shrink_amount' = IF count >= StallLimit THEN ShrinkStep ELSE shrink_amount
  /\ shrink_before' = IF count >= StallLimit THEN bounds ELSE shrink_before
  /\ stall_log' = Append(stall_log, [positions |-> positions_of(modules),
                                     shrunk |-> count >= StallLimit,
                                     count |-> count_after_shrink(count)])
  /\ step_start' = IF step + 1 < steps
                   THEN [bounds |-> bounds', modules |-> modules] ELSE step_start

(* main.py lines 475-494: after the pass, the action history and the stall
   count *)
StallCheck ==
  /\ pc = "main_pass"
  /\ idx > Len(modules)
  /\ action_history' =
       [mid \in DOMAIN action_history |->
          Append(action_history[mid],
                 IF mid \in DOMAIN step_actions THEN step_actions[mid] ELSE None)]
  /\ StallWith(next_unchanged_count(prev_positions, positions_of(modules),
                                    unchanged_count))
  /\ step' = step + 1
  /\ pc' = IF step + 1 < steps THEN "main_pass" ELSE "done"
  /\ idx' = 1
  /\ step_actions' = IF step + 1 < steps THEN << >> ELSE step_actions
  /\ applied_actions' = IF step + 1 < steps THEN << >> ELSE applied_actions
  /\ UNCHANGED <<modules, steps, dead_space_history, overlap_histories,
                 outside_histories, on_step_calls, before_act, ever_settled,
                 measured>>

NextMain ==
  \/ \E s \in 0..MaxMainSteps : RunMain(s)
  \/ MainModuleAct
  \/ StallCheck

(* main.py lines 535-546: the example adds modules of one size, all square;
   here a registry of one module of any size, or of up to MaxModules equal
   squares, at any position *)
MainSetups ==
  {ms \in Setups : Len(ms) > 1 => \A k \in 1..Len(ms) : ms[k].width = ms[1].width
                                                       /\ ms[k].height = ms[1].width}

InitMain ==
  /\ \E f \in 1..MaxField : bounds = <<0, 0, f, f>>
  /\ modules \in MainSetups
  /\ InitCommon

SpecMain == InitMain /\ [][NextMain]_vars

(* run of either variant, engine.py or main.py, on the same setups *)
NextLoops ==
  \/ Next
  \/ NextMain

SpecLoops == InitMain /\ [][NextLoops]_vars

(***************************************************************************)
(* Environment alone: shrink_bounds called with any positive amount, any   *)
(* number of times, on an environment with non-degenerate bounds.          *)
(***************************************************************************)
ExampleBounds == <<0, 0, ExampleSide, ExampleSide>>

InitField ==
  /\ \/ \E x0 \in 0..MaxOrigin, y0 \in 0..MaxOrigin, w \in 1..MaxSide, h \in 1..MaxSide :
          bounds = <<x0, y0, x0 + w, y0 + h>>
     \/ bounds = ExampleBounds
  /\ modules = << >>
  /\ InitCommon

ShrinkCall(amount) ==
  /\ pc = "idle"
  /\ bounds' = shrink_bounds(bounds, amount)
  /\ shrink_amount' = amount
  /\ shrink_before' = bounds
  /\ UNCHANGED <<modules, pc, steps, step, idx, step_actions, histories,
                 on_step_calls, stall, applied_actions, before_act, step_start,
                 shrink_calls, ever_settled, measured>>

NextField == \E amount \in 1..MaxAmount : ShrinkCall(amount)

SpecField == InitField /\ [][NextField]_vars

(***************************************************************************)
(* Setup with any arguments: Environment(bounds) and ResponsiveModule(...) *)
(* are constructed with whatever the caller passes, add_module registers   *)
(* the module, and run is then called on the result.                       *)
(***************************************************************************)
SetupSides == (-1)..MaxField

SetupDims == (-1)..MaxDim

SetupQuarters == 0..MaxQuarter

(* ResponsiveModule(module_id, position, width, height) for a position given
   in quarters: line 15 rounds each coordinate, lines 16-17 store the width
   and the height as passed *)
ResponsiveModule_init(module_id, position4, width, height) ==
  NewModule(module_id, RoundQuarter(position4[1]), RoundQuarter(position4[2]),
            width, height)

(* Environment(bounds): lines 11-12 store the bounds as passed *)
InitSetup ==
  /\ \E fw \in SetupSides, fh \in SetupSides : bounds = <<0, 0, fw, fh>>
  /\ modules = << >>
  /\ InitCommon

(* Environment.add_module(module), before the run *)
add_module(module) ==
  /\ pc = "idle"
  /\ Len(modules) < MaxSetupModules
  /\ modules' = Append(modules, module)
  /\ UNCHANGED <<bounds, pc, steps, step, idx, step_actions, histories,
                 on_step_calls, stall, applied_actions, before_act, step_start,
                 shrinks, ever_settled, measured>>

NextSetup ==
  \/ \E x4 \in SetupQuarters, y4 \in SetupQuarters, w \in SetupDims, h \in SetupDims :
       add_module(ResponsiveModule_init(Len(modules), <<x4, y4>>, w, h))
  \/ Next

SpecSetup == InitSetup /\ [][NextSetup]_vars

(***************************************************************************)
(* The step loop on the example scenarios: modules of the default size in  *)
(* the example environment, one module next to a corner or at the middle,  *)
(* or two modules at the same place; and on environments of any small      *)
(* size, square or not, with no module.                                    *)
(***************************************************************************)
ExampleCoords == (0..MaxNear) \cup {ExampleSide \div 2}

SingleModule(x, y) == <<NewModule(0, x, y, ExampleSize, ExampleSize)>>

CoincidentPair(x, y) ==
  <<NewModule(0, x, y, ExampleSize, ExampleSize),
    NewModule(1, x, y, ExampleSize, ExampleSize)>>

ExampleSetups ==
  {<< >>} \cup {SingleModule(x, y) : x \in ExampleCoords, y \in ExampleCoords}
          \cup {CoincidentPair(x, y) : x \in ExampleCoords, y \in ExampleCoords}

InitExample ==
  /\ \/ /\ \E x0 \in 0..MaxOrigin, y0 \in 0..MaxOrigin, w \in 1..MaxSide, h \in 1..MaxSide :
             bounds = <<x0, y0, x0 + w, y0 + h>>
        /\ modules = << >>
     \/ /\ bounds = ExampleBounds
        /\ modules \in ExampleSetups
  /\ InitCommon

SpecExample == InitExample /\ [][Next]_vars

(***************************************************************************)
(* The geometry alone: one module in an environment of any small size, or  *)
(* two modules, each at any position of a small grid (negative coordinates *)
(* included) with any small width and height.  A module is rotated by the  *)
(* rotate action; overlap_area_with and overlap_with_environment are       *)
(* called on the modules as they are.                                      *)
(***************************************************************************)
GeoCoords == (-1)..MaxDim

GeoModules(module_id) ==
  {NewModule(module_id, x, y, w, h) :
     x \in GeoCoords, y \in GeoCoords, w \in Dims, h \in Dims}

InitGeometry ==
  /\ \/ /\ \E fw \in 1..MaxField, fh \in 1..MaxField : bounds = <<0, 0, fw, fh>>
        /\ \E a \in GeoModules(0) : modules = <<a>>
     \/ /\ bounds = <<0, 0, MaxField, MaxField>>
        /\ \E a \in GeoModules(0), b \in GeoModules(1) : modules = <<a, b>>
  /\ InitCommon

(* perform_best_action's rotate branch (lines 194-197) on module k *)
Rotate(k) ==
  /\ pc = "idle"
  /\ modules' = [modules EXCEPT ![k] =
                   apply_action([action |-> "rotate", value |-> QuarterTurn,
                                 self |-> modules[k]]).self]
  /\ applied_actions' = (modules[k].module_id :> "rotate")
  /\ before_act' = modules
  /\ idx' = k + 1
  /\ measured' = << >>
  /\ UNCHANGED <<bounds, pc, steps, step, step_actions, histories, on_step_calls,
                 stall, step_start, shrinks, ever_settled>>

(* a.overlap_area_with(b) for every two modules a, b, and
   a.overlap_with_environment(environment) and
   a.evaluate_free_space(environment) for every module a *)
Measure ==
  /\ pc = "idle"
  /\ measured = << >>
  /\ measured' =
       <<[overlap |-> [j \in 1..Len(modules) |->
                        [k \in 1..Len(modules) |-> overlap_area_with(modules[j], modules[k])]],
          outside |-> [k \in 1..Len(modules) |-> overlap_with_environment(modules[k], bounds)],
          free |-> [k \in 1..Len(modules) |->
                     evaluate_free_space(modules, k, modules[k], bounds)]]>>
  /\ UNCHANGED <<bounds, modules, pc, steps, step, idx, step_actions, histories,
                 on_step_calls, stall, applied_actions, before_act, step_start,
                 shrinks, ever_settled>>

NextGeometry ==
  \/ \E k \in 1..Len(modules) : Rotate(k)
  \/ Measure

SpecGeometry == InitGeometry /\ [][NextGeometry]_vars

(***************************************************************************)
(* Properties.                                                             *)
(***************************************************************************)
Width(bnd) == bnd[3] - bnd[1]

Height(bnd) == bnd[4] - bnd[2]

ShrunkBy(bnd, a) == <<bnd[1] + a, bnd[2] + a, bnd[3] - a, bnd[4] - a>>

CombinedCost(ms, k, bnd) ==
  total_overlap(ms, k, ms[k]) + overlap_with_environment(ms[k], bnd)

(* the module that acted last in the current pass, once one has *)
Acted == idx > 1

LastIdx == idx - 1

LastId == modules[idx - 1].module_id

(* C1: under SpecField, from bounds with min_x < max_x and min_y < max_y and
   after any sequence of shrink_bounds calls with a positive amount, min_x <
   max_x and min_y < max_y still hold. *)
C1_BoundsNeverDegenerate == bounds[1] < bounds[3] /\ bounds[2] < bounds[4]

(* a shrink has brought a side down to 1 *)
C1_Witness ==
  /\ shrink_amount > 0
  /\ bounds # shrink_before
  /\ (Width(bounds) = 1 \/ Height(bounds) = 1)

(* C2 as stated: a shrink_bounds call changes the bounds only if both
   dimensions after the shrink are greater than 2 * amount, and from
   (0,0,100,100) the width and height never drop to 2 or less. *)
C2_Original ==
  /\ (shrink_amount > 0 /\ bounds # shrink_before)
       => (Width(bounds) > 2 * shrink_amount /\ Height(bounds) > 2 * shrink_amount)
  /\ step_start.bounds = ExampleBounds => (Width(bounds) > 2 /\ Height(bounds) > 2)

(* C2 amended: a shrink_bounds call moves every bound inward by amount if
   both dimensions before the call are greater than 2 * amount (so both stay
   positive) and changes nothing otherwise; from (0,0,100,100) the width and
   height never drop below 2, and shrink_bounds(1) at width or height 2
   changes nothing. *)
C2_ShrinkGuard ==
  /\ shrink_amount > 0 =>
       bounds = IF Width(shrink_before) > 2 * shrink_amount
                   /\ Height(shrink_before) > 2 * shrink_amount
                THEN ShrunkBy(shrink_before, shrink_amount)
                ELSE shrink_before
  /\ step_start.bounds = ExampleBounds => (Width(bounds) >= 2 /\ Height(bounds) >= 2)

(* from (0,0,100,100) the bounds are down to width and height 2, and a further
   shrink_bounds(1) has left them unchanged *)
C2_Witness ==
  /\ step_start.bounds = ExampleBounds
  /\ bounds = <<49, 49, 51, 51>>
  /\ shrink_amount = 1
  /\ shrink_before = bounds

(* C3: in a step of the engine's loop, shrink_bounds is called and the
   bounds change only if, after the pass, every module has no overlap with
   another and no area outside the bounds the check saw. *)
C3_ShrinkOnlyWhenSettled ==
  (shrink_calls > 0 \/ bounds # step_start.bounds)
    => AllSettled(modules, step_start.bounds)

(* the settle check of a step has run with a module unsettled after the
   pass, and no shrink was made *)
C3_Witness ==
  /\ pc \in {"callback", "error"}
  /\ Len(modules) > 0
  /\ ~AllSettled(modules, step_start.bounds)
  /\ shrink_calls = 0
  /\ bounds = step_start.bounds

(* C4 as stated, for a step that begins above the shrink floor: once the
   settle check of a step has run with every module settled, shrink_bounds
   was called exactly once in the step and every bound has moved inward by
   1. *)
C4_SettledStepShrinks ==
  (/\ pc \in {"callback", "error"}
   /\ AllSettled(modules, step_start.bounds)
   /\ Width(step_start.bounds) > 2
   /\ Height(step_start.bounds) > 2)
    => (shrink_calls = 1 /\ bounds = ShrunkBy(step_start.bounds, 1))

(* C5: with non-degenerate bounds and at least one module with positive
   width and height, the step loop never raises. *)
C5_NeverRaises ==
  (/\ bounds[1] < bounds[3]
   /\ bounds[2] < bounds[4]
   /\ Len(modules) >= 1
   /\ \A k \in 1..Len(modules) : modules[k].width > 0 /\ modules[k].height > 0)
    => pc # "error"

(* C6 as stated: after a module's choose_best_action and the application of
   the action, its combined cost is at most its combined cost before, or the
   action is the no-op. *)
C6_Original ==
  Acted =>
    \/ applied_actions[LastId] = None
    \/ CombinedCost(modules, LastIdx, bounds) <= CombinedCost(before_act, LastIdx, bounds)

(* C6 amended: after a unit move the module's combined cost is strictly
   lower than before; after a rotate or a center its pairwise overlap alone
   or its outside area alone is strictly lower than before (the combined
   cost may be higher); after the no-op the module is unchanged. *)
C6_ComponentImproves ==
  Acted =>
    /\ applied_actions[LastId] \in MoveActions =>
         CombinedCost(modules, LastIdx, bounds) < CombinedCost(before_act, LastIdx, bounds)
    /\ applied_actions[LastId] \in {"rotate", "center"} =>
         \/ total_overlap(modules, LastIdx, modules[LastIdx])
              < total_overlap(before_act, LastIdx, before_act[LastIdx])
         \/ overlap_with_environment(modules[LastIdx], bounds)
              < overlap_with_environment(before_act[LastIdx], bounds)
    /\ applied_actions[LastId] = None => modules[LastIdx] = before_act[LastIdx]

(* a rotation was applied that lowered one component and raised the combined
   cost *)
C6_Witness ==
  /\ Acted
  /\ applied_actions[LastId] = "rotate"
  /\ CombinedCost(modules, LastIdx, bounds) > CombinedCost(before_act, LastIdx, bounds)

(* the three improvement tests of choose_best_action, for module k of ms *)
RotationPasses(ms, k, bnd) ==
  \/ total_overlap(ms, k, [ms[k] EXCEPT !.orientation = Toggle(@)])
       < total_overlap(ms, k, ms[k])
  \/ overlap_with_environment([ms[k] EXCEPT !.orientation = Toggle(@)], bnd)
       < overlap_with_environment(ms[k], bnd)

CenteredAt(ms, k, bnd) ==
  [ms[k] EXCEPT !.position = CenterOf(evaluate_free_space(ms, k, ms[k], bnd))]

CenterPasses(ms, k, bnd) ==
  \/ total_overlap(ms, k, CenteredAt(ms, k, bnd)) < total_overlap(ms, k, ms[k])
  \/ overlap_with_environment(CenteredAt(ms, k, bnd), bnd)
       < overlap_with_environment(ms[k], bnd)

StepPasses(ms, k, bnd) ==
  \E d \in 1..4 :
    MoveScore(ms, k, [ms[k] EXCEPT !.position = <<@[1] + Directions[d][2],
                                                  @[2] + Directions[d][3]>>], bnd)
      < CombinedCost(ms, k, bnd)

(* C7: the action choose_best_action returns is that of the first of the
   trials rotation, centering, unit step that passes its own improvement
   test, and the no-op exactly when none passes. *)
C7_FirstPassingTrialWins ==
  Acted =>
    /\ step_actions[LastId] = "rotate" <=> RotationPasses(before_act, LastIdx, bounds)
    /\ step_actions[LastId] = "center" <=>
         (~RotationPasses(before_act, LastIdx, bounds)
          /\ CenterPasses(before_act, LastIdx, bounds))
    /\ step_actions[LastId] \in MoveActions <=>
         (/\ ~RotationPasses(before_act, LastIdx, bounds)
          /\ ~CenterPasses(before_act, LastIdx, bounds)
          /\ StepPasses(before_act, LastIdx, bounds))
    /\ step_actions[LastId] = None <=>
         (/\ ~RotationPasses(before_act, LastIdx, bounds)
          /\ ~CenterPasses(before_act, LastIdx, bounds)
          /\ ~StepPasses(before_act, LastIdx, bounds))

(* rotate was returned although centering and a unit step passed too *)
C7_Witness ==
  /\ Acted
  /\ step_actions[LastId] = "rotate"
  /\ CenterPasses(before_act, LastIdx, bounds)
  /\ StepPasses(before_act, LastIdx, bounds)

(* C8: within a step the modules act in registration order, and the action
   of each is chosen and applied against the live registry: the modules
   before it as they are after their own action of this step, the modules
   after it as they were when the step began. *)
C8_LiveState ==
  Acted =>
    /\ DOMAIN step_actions = {modules[j].module_id : j \in 1..LastIdx}
    /\ step_actions[LastId] = choose_best_action(before_act, LastIdx, bounds).action
    /\ modules[LastIdx] = perform_best_action(before_act, LastIdx, bounds).self
    /\ before_act[LastIdx] = step_start.modules[LastIdx]
    /\ \A j \in 1..Len(modules) :
         /\ j < LastIdx => before_act[j] = modules[j]
         /\ j > LastIdx => (/\ before_act[j] = step_start.modules[j]
                            /\ modules[j] = step_start.modules[j])

(* a later module chose an action, against the live registry, that it would
   not have chosen against the registry as it was when the step began *)
C8_Witness ==
  /\ Acted
  /\ LastIdx > 1
  /\ before_act # step_start.modules
  /\ step_actions[LastId] # choose_best_action(step_start.modules, LastIdx, bounds).action

(* C9: run(steps, on_step) ends after exactly steps iterations, and on_step
   has been invoked once per step, with the step indices 0 .. steps-1 in
   order. *)
C9_RunsAllSteps ==
  pc \in {"done", "error"} =>
    /\ pc = "done"
    /\ step = steps
    /\ Len(on_step_calls) = steps
    /\ \A i \in 1..Len(on_step_calls) : on_step_calls[i].step = i - 1

(* the modules ms can be placed, each in one of its two orientations, inside
   bnd without overlap *)
RECURSIVE Arrangements(_, _, _)
Arrangements(ms, bnd, j) ==
  IF j > Len(ms) THEN {ms}
  ELSE UNION {Arrangements([ms EXCEPT ![j].position = <<x, y>>, ![j].orientation = o],
                           bnd, j + 1) :
                x \in bnd[1]..bnd[3], y \in bnd[2]..bnd[4], o \in {0, QuarterTurn}}

Arrangeable(ms, bnd) == \E a \in Arrangements(ms, bnd, 1) : AllSettled(a, bnd)

(* C10: when the modules can be arranged without overlap inside the initial
   bounds, a run of at least one step does not end before some step has left
   every module settled. *)
C10_ReachesSettled ==
  (/\ pc \in {"done", "error"}
   /\ steps > 0
   /\ Arrangeable(modules, step_start.bounds))
    => ever_settled

(* C11: a module with zero or negative width or height, or an environment
   with min_x >= max_x or min_y >= max_y, is rejected when it is constructed,
   so none takes part in a run. *)
C11_SetupValidated ==
  pc # "idle" =>
    /\ bounds[1] < bounds[3]
    /\ bounds[2] < bounds[4]
    /\ \A k \in 1..Len(modules) : modules[k].width > 0 /\ modules[k].height > 0

(* C12: in every step of a run the bounds either stay as they are or move
   inward by the shrink increment on all four sides at once (width and height
   decrease together); they never grow and never change in one dimension
   only. *)
C12_BoundsMonotone ==
  [][bounds' = bounds \/ bounds' = ShrunkBy(bounds, ShrinkStep)]_vars

(* a step has called shrink_bounds with only the width at the floor, and all
   four bounds are as they were *)
C12_Witness ==
  /\ pc = "callback"
  /\ shrink_calls = 1
  /\ bounds = step_start.bounds
  /\ Width(bounds) <= 2 * ShrinkStep
  /\ Height(bounds) > 2 * ShrinkStep

(* the first step of a run on the given setup has made its module pass *)
FirstPassOver(ms, bnd) ==
  /\ steps > 0
  /\ step = 0
  /\ pc \in {"settle", "callback", "error"}
  /\ step_start.modules = ms
  /\ step_start.bounds = bnd

(* C13: with two 10x10 modules both at (50,50) inside (0,0,100,100), after
   the module pass of the first step at least one module is no longer at
   (50,50). *)
C13_CoincidentPairSeparates ==
  FirstPassOver(CoincidentPair(ExampleSide \div 2, ExampleSide \div 2), ExampleBounds)
    => \E k \in 1..Len(modules) :
         modules[k].position # <<ExampleSide \div 2, ExampleSide \div 2>>

(* the first module has stepped right to (51,50), then the second has stepped
   left to (49,50) *)
C13_Witness ==
  /\ FirstPassOver(CoincidentPair(ExampleSide \div 2, ExampleSide \div 2), ExampleBounds)
  /\ pc = "error"
  /\ modules[1].position = <<51, 50>>
  /\ modules[2].position = <<49, 50>>
  /\ step_actions = (0 :> "move_right") @@ (1 :> "move_left")

(* C14: with a single 10x10 module at (5,5) inside (0,0,100,100), once the
   first step has made its module pass and its settle check (with the shrink
   the check triggers, if any), the module's area outside the bounds is
   strictly smaller than before the step or is zero. *)
C14_OutsideShrinksOrZero ==
  (/\ FirstPassOver(SingleModule(5, 5), ExampleBounds)
   /\ pc \in {"callback", "error"})
    => \/ overlap_with_environment(modules[1], bounds)
           < overlap_with_environment(step_start.modules[1], step_start.bounds)
       \/ overlap_with_environment(modules[1], bounds) = 0

(* the step is over for the module at (5,5): it has not moved, the bounds are
   as they were and nothing of it is outside *)
C14_Witness ==
  /\ FirstPassOver(SingleModule(5, 5), ExampleBounds)
  /\ pc \in {"callback", "error"}
  /\ modules = SingleModule(5, 5)
  /\ bounds = ExampleBounds
  /\ overlap_with_environment(modules[1], bounds) = 0

(* the closed rectangles r1 and r2 (<<left, bottom, right, top>>) share a
   point; their interiors share a point *)
Meet(r1, r2) ==
  r1[1] <= r2[3] /\ r2[1] <= r1[3] /\ r1[2] <= r2[4] /\ r2[2] <= r1[4]

InteriorsMeet(r1, r2) ==
  r1[1] < r2[3] /\ r2[1] < r1[3] /\ r1[2] < r2[4] /\ r2[2] < r1[4]

OnlyTouch(r1, r2) == Meet(r1, r2) /\ ~InteriorsMeet(r1, r2)

(* C15: for every two modules A and B, at any integer positions, with
   positive dimensions and in either orientation, the overlap area of A with
   B equals that of B with A and is not negative, and it is 0 when the two
   rectangles only touch along an edge or at a corner. *)
C15_OverlapSymmetric ==
  measured # << >> =>
    \A j \in 1..Len(modules), k \in 1..Len(modules) :
      /\ measured[1].overlap[j][k] = measured[1].overlap[k][j]
      /\ measured[1].overlap[j][k] >= 0
      /\ OnlyTouch(get_bounds(modules[j]), get_bounds(modules[k]))
           => measured[1].overlap[j][k] = 0

(* the overlap of a rotated module with one it touches at a corner only has
   been measured *)
C15_Witness ==
  /\ measured # << >>
  /\ Len(modules) = 2
  /\ modules[1].orientation = QuarterTurn
  /\ modules[1].width # modules[1].height
  /\ get_bounds(modules[1])[3] = get_bounds(modules[2])[1]
  /\ get_bounds(modules[1])[4] = get_bounds(modules[2])[2]
  /\ measured[1].overlap[1][2] = 0

(* the rectangle r (doubled) lies inside the bounds bnd, edges included *)
Inside(r, bnd) ==
  2 * bnd[1] <= r[1] /\ r[3] <= 2 * bnd[3] /\ 2 * bnd[2] <= r[2] /\ r[4] <= 2 * bnd[4]

(* C16: for every module whose rectangle lies inside the bounds, edges on the
   bounds included, the area outside the bounds is 0. *)
C16_InsideMeansNoOutside ==
  measured # << >> =>
    \A k \in 1..Len(modules) :
      Inside(get_bounds(modules[k]), bounds) => measured[1].outside[k] = 0

(* the outside area of a rotated module with its left and right edges on the
   bounds has been measured *)
C16_Witness ==
  /\ measured # << >>
  /\ modules[1].orientation = QuarterTurn
  /\ modules[1].width # modules[1].height
  /\ Inside(get_bounds(modules[1]), bounds)
  /\ get_bounds(modules[1])[1] = 2 * bounds[1]
  /\ get_bounds(modules[1])[3] = 2 * bounds[3]
  /\ measured[1].outside[1] = 0

(* C17: a rotation swaps the module's effective width and height and leaves
   its centre where it was; the second rotation of a module returns its
   orientation, its effective width and height and its (left, bottom, right,
   top) bounds to what they were at construction. *)
C17_ToggleRoundTrip ==
  (Acted /\ LastId \in DOMAIN applied_actions /\ applied_actions[LastId] = "rotate") =>
    /\ get_width_height(modules[LastIdx])
         = <<get_width_height(before_act[LastIdx])[2],
             get_width_height(before_act[LastIdx])[1]>>
    /\ modules[LastIdx].position = before_act[LastIdx].position
    /\ get_bounds(modules[LastIdx])[1] + get_bounds(modules[LastIdx])[3]
         = 4 * before_act[LastIdx].position[1]
    /\ get_bounds(modules[LastIdx])[2] + get_bounds(modules[LastIdx])[4]
         = 4 * before_act[LastIdx].position[2]
    /\ apply_action([action |-> "rotate", value |-> QuarterTurn,
                      self |-> modules[LastIdx]]).self = before_act[LastIdx]
    /\ before_act[LastIdx].orientation # step_start.modules[LastIdx].orientation =>
         /\ modules[LastIdx].orientation = step_start.modules[LastIdx].orientation
         /\ get_width_height(modules[LastIdx])
              = get_width_height(step_start.modules[LastIdx])
         /\ get_bounds(modules[LastIdx]) = get_bounds(step_start.modules[LastIdx])

(* a module wider than high has been rotated a second time and is as it was
   constructed *)
C17_Witness ==
  /\ Acted
  /\ LastId \in DOMAIN applied_actions
  /\ applied_actions[LastId] = "rotate"
  /\ before_act[LastIdx].orientation = QuarterTurn
  /\ modules[LastIdx].width > modules[LastIdx].height
  /\ modules[LastIdx] = step_start.modules[LastIdx]

(* the orientation is one of the two, the position a pair of integers *)
WellFormed(m) ==
  /\ m.orientation \in {0, QuarterTurn}
  /\ m.position \in Int \X Int

(* the integer p is the one nearest to the midpoint of the doubled edges lo
   and hi, or one of the two nearest when the midpoint is half way *)
RoundedMidpoint(p, lo, hi) ==
  4 * p - (lo + hi) <= 2 /\ (lo + hi) - 4 * p <= 2

(* the module at index k of the registry ms, centred by the action that led
   to the module m, is at the rounded midpoint of its free space *)
CentredInFreeSpace(ms, k, bnd, m) ==
  /\ RoundedMidpoint(m.position[1], evaluate_free_space(ms, k, ms[k], bnd)[1],
                     evaluate_free_space(ms, k, ms[k], bnd)[3])
  /\ RoundedMidpoint(m.position[2], evaluate_free_space(ms, k, ms[k], bnd)[2],
                     evaluate_free_space(ms, k, ms[k], bnd)[4])

(* C18: in every step of a run each module's position is a pair of integers
   (after a center action, the rounded midpoint of its free space), its
   orientation is one of the two, its id, width and height are as they were,
   and the registry holds the same modules in the same order. *)
C18_ModulesKeepIdentity ==
  [][/\ Len(modules') = Len(modules)
     /\ \A k \in 1..Len(modules) :
          /\ WellFormed(modules[k])
          /\ WellFormed(modules'[k])
          /\ modules'[k].module_id = modules[k].module_id
          /\ modules'[k].width = modules[k].width
          /\ modules'[k].height = modules[k].height
     /\ (pc = "pass" /\ idx' = idx + 1
           /\ applied_actions'[modules[idx].module_id] = "center")
          => CentredInFreeSpace(modules, idx, bounds, modules'[idx])]_vars

(* the second module of two has been centred at a midpoint that is half way
   between two integers, after the first was rotated *)
C18_Witness ==
  /\ Acted
  /\ LastIdx = 2
  /\ applied_actions[LastId] = "center"
  /\ applied_actions[modules[1].module_id] = "rotate"
  /\ (evaluate_free_space(before_act, LastIdx, before_act[LastIdx], bounds)[1]
       + evaluate_free_space(before_act, LastIdx, before_act[LastIdx], bounds)[3]) % 4 = 2
  /\ modules[LastIdx].position # before_act[LastIdx].position

(* C19: the rotation trial (orientation toggled, position kept) is accepted
   if and only if the module's total overlap alone or its outside area alone
   is strictly lower than in the current state, and when it is not accepted
   the centering trial (position at the rounded midpoint of the free space,
   orientation kept) is accepted under the same test; the sum of the two is
   not compared.  The accepted trial's state is the module's state after the
   action. *)
C19_TrialAcceptance ==
  Acted =>
    /\ step_actions[LastId] = "rotate" <=> RotationPasses(before_act, LastIdx, bounds)
    /\ ~RotationPasses(before_act, LastIdx, bounds) =>
         (step_actions[LastId] = "center" <=> CenterPasses(before_act, LastIdx, bounds))
    /\ step_actions[LastId] = "rotate" =>
         modules[LastIdx] = [before_act[LastIdx] EXCEPT !.orientation = Toggle(@)]
    /\ step_actions[LastId] = "center" =>
         modules[LastIdx] = CenteredAt(before_act, LastIdx, bounds)

(* a centering was accepted that lowered the outside area and raised the sum
   of overlap and outside area *)
C19_Witness ==
  /\ Acted
  /\ step_actions[LastId] = "center"
  /\ overlap_with_environment(modules[LastIdx], bounds)
       < overlap_with_environment(before_act[LastIdx], bounds)
  /\ CombinedCost(modules, LastIdx, bounds) > CombinedCost(before_act, LastIdx, bounds)

(* module k of ms moved one unit in direction d; its combined cost there *)
Stepped(ms, k, d) ==
  [ms[k] EXCEPT !.position = <<@[1] + Directions[d][2], @[2] + Directions[d][3]>>]

StepScore(ms, k, bnd, d) == MoveScore(ms, k, Stepped(ms, k, d), bnd)

(* the earliest, in the order right, left, up, down, of the directions with
   the lowest combined cost *)
BestDirection(ms, k, bnd) ==
  CHOOSE d \in 1..4 :
    /\ \A e \in 1..4 : StepScore(ms, k, bnd, d) <= StepScore(ms, k, bnd, e)
    /\ \A e \in 1..(d - 1) : StepScore(ms, k, bnd, d) < StepScore(ms, k, bnd, e)

(* C20: when neither rotation nor centering is accepted, the action is a move
   of exactly 1 unit in the direction with the lowest combined cost of the
   four, the earliest of them in the order right, left, up, down when several
   have it, provided that cost is strictly lower than the current combined
   cost; otherwise there is no move. *)
C20_UnitStepChoice ==
  (/\ Acted
   /\ ~RotationPasses(before_act, LastIdx, bounds)
   /\ ~CenterPasses(before_act, LastIdx, bounds))
    => IF StepScore(before_act, LastIdx, bounds, BestDirection(before_act, LastIdx, bounds))
            < CombinedCost(before_act, LastIdx, bounds)
       THEN /\ step_actions[LastId]
                 = Directions[BestDirection(before_act, LastIdx, bounds)][1]
            /\ modules[LastIdx]
                 = Stepped(before_act, LastIdx, BestDirection(before_act, LastIdx, bounds))
       ELSE /\ step_actions[LastId] = None
            /\ modules[LastIdx] = before_act[LastIdx]

(* the module has moved left although up or down would have cost the same *)
C20_Witness ==
  /\ Acted
  /\ ~RotationPasses(before_act, LastIdx, bounds)
  /\ ~CenterPasses(before_act, LastIdx, bounds)
  /\ step_actions[LastId] = "move_left"
  /\ modules[LastIdx].position[1] = before_act[LastIdx].position[1] - 1
  /\ \E e \in 3..4 : StepScore(before_act, LastIdx, bounds, e)
                       = StepScore(before_act, LastIdx, bounds, 2)

(* the module o is directly aligned with the point <<x, y>> (doubled): its
   vertical extent contains y or its horizontal extent contains x *)
Aligned(o, x, y) ==
  \/ get_bounds(o)[2] <= y /\ y <= get_bounds(o)[4]
  \/ get_bounds(o)[1] <= x /\ x <= get_bounds(o)[3]

(* the module o covers the point <<x, y>> (doubled) with its interior *)
Covers(o, x, y) ==
  /\ get_bounds(o)[1] < x /\ x < get_bounds(o)[3]
  /\ get_bounds(o)[2] < y /\ y < get_bounds(o)[4]

(* C21: the rectangle evaluate_free_space returns for a module has no
   intersection of positive area with any other module that is directly
   aligned with the module's position, wherever the other modules are, also
   when one covers the module's centre. *)
C21_FreeSpaceIsFree ==
  measured # << >> =>
    \A k \in 1..Len(modules), j \in 1..Len(modules) :
      (j # k /\ Aligned(modules[j], 2 * modules[k].position[1], 2 * modules[k].position[2]))
        => RectOverlap(measured[1].free[k], get_bounds(modules[j])) = 0

(* C22: the outside area is the sum of the four strips (min_x - left) *
   height, (right - max_x) * height, (min_y - bottom) * width and (top -
   max_y) * width, each taken only when its edge is strictly beyond the
   bound, with the module's full effective width and height; it is never
   less than the area of the module's part outside the bounds. *)
C22_OutsideIsSumOfStrips ==
  measured # << >> =>
    \A k \in 1..Len(modules) :
      /\ measured[1].outside[k] =
             (IF 2 * modules[k].position[1] - get_width_height(modules[k])[1] < 2 * bounds[1]
              THEN (2 * bounds[1] - (2 * modules[k].position[1]
                                     - get_width_height(modules[k])[1]))
                   * 2 * get_width_height(modules[k])[2] ELSE 0)
           + (IF 2 * modules[k].position[1] + get_width_height(modules[k])[1] > 2 * bounds[3]
              THEN (2 * modules[k].position[1] + get_width_height(modules[k])[1]
                    - 2 * bounds[3])
                   * 2 * get_width_height(modules[k])[2] ELSE 0)
           + (IF 2 * modules[k].position[2] - get_width_height(modules[k])[2] < 2 * bounds[2]
              THEN (2 * bounds[2] - (2 * modules[k].position[2]
                                     - get_width_height(modules[k])[2]))
                   * 2 * get_width_height(modules[k])[1] ELSE 0)
           + (IF 2 * modules[k].position[2] + get_width_height(modules[k])[2] > 2 * bounds[4]
              THEN (2 * modules[k].position[2] + get_width_height(modules[k])[2]
                    - 2 * bounds[4])
                   * 2 * get_width_height(modules[k])[1] ELSE 0)
      /\ measured[1].outside[k] >= RectOutside_clamped(get_bounds(modules[k]), bounds)

(* the outside area of a rotated module beyond the left and the bottom bound
   has been measured, and the corner beyond both has been counted twice *)
C22_Witness ==
  /\ measured # << >>
  /\ modules[1].orientation = QuarterTurn
  /\ modules[1].width # modules[1].height
  /\ get_bounds(modules[1])[1] < 2 * bounds[1]
  /\ get_bounds(modules[1])[2] < 2 * bounds[2]
  /\ measured[1].outside[1] > RectOutside_clamped(get_bounds(modules[1]), bounds)

(* C23: the action recorded for a module in a step (computed by the
   engine's own choose_best_action call) is the action perform_best_action
   applied to it in that step (computed by its second call), and it is the
   step's entry of the module's action history. *)
C23_RecordedIsApplied ==
  /\ Acted => step_actions[LastId] = applied_actions[LastId]
  /\ pc \in {"settle", "callback", "error"} =>
       \A mid \in DOMAIN action_history :
         /\ Len(action_history[mid]) = step + 1
         /\ action_history[mid][step + 1] = applied_actions[mid]

(* a step's history entries are in: center for the first module and a move
   for the second, as applied *)
C23_Witness ==
  /\ pc \in {"settle", "callback", "error"}
  /\ Len(modules) = 2
  /\ action_history[modules[1].module_id] = <<"center">>
  /\ action_history[modules[2].module_id] = <<"move_left">>
  /\ applied_actions[modules[1].module_id] = "center"
  /\ applied_actions[modules[2].module_id] = "move_left"
  /\ modules[1].position # step_start.modules[1].position
  /\ modules[2].position[1] = step_start.modules[2].position[1] - 1

Area(bnd) == Width(bnd) * Height(bnd)

(* C24 as stated: in every snapshot handed to on_step, the latest dead-space
   entry is the area of the snapshot's bounds minus the sum of the module
   areas. *)
C24_Original ==
  \A i \in 1..Len(on_step_calls) :
    on_step_calls[i].dead_space
      = Area(on_step_calls[i].bounds) - ModulesArea(on_step_calls[i].modules, 1)

(* C24 amended: when on_step is invoked, the latest dead-space entry is the
   area of the bounds as they were before the step's shrink (the bounds the
   step began with) minus the sum of the module areas; from the second
   snapshot on, that is the area of the previous snapshot's bounds, and it
   is the area of the snapshot's own bounds only when the step's shrink left
   the bounds unchanged. *)
C24_DeadSpaceBeforeShrink ==
  /\ pc = "callback" =>
       /\ dead_space_history[Len(dead_space_history)]
            = Area(step_start.bounds) - ModulesArea(modules, 1)
       /\ (dead_space_history[Len(dead_space_history)]
             = Area(bounds) - ModulesArea(modules, 1)) <=> (bounds = step_start.bounds)
  /\ \A i \in 1..Len(on_step_calls) :
       /\ on_step_calls[i].dead_space = dead_space_history[i]
       /\ i > 1 => on_step_calls[i].dead_space
                     = Area(on_step_calls[i - 1].bounds)
                       - ModulesArea(on_step_calls[i].modules, 1)

(* the second snapshot holds bounds that the step's shrink has changed, and
   the dead space of the bounds before it *)
C24_Witness ==
  /\ Len(on_step_calls) = 2
  /\ on_step_calls[2].bounds = ShrunkBy(on_step_calls[1].bounds, ShrinkStep)
  /\ on_step_calls[2].dead_space = Area(on_step_calls[1].bounds)
  /\ on_step_calls[2].dead_space # Area(on_step_calls[2].bounds)

(* C25: in the stall-count loop shrink_bounds(1) is called in a step if and
   only if the positions after the step equal those after the step before,
   and those equal the positions after the step before that, with no shrink
   in the step before (two unchanged rounds in a row since the start or the
   last shrink); the counter is 0 after a step whose positions changed and
   after a shrink; so no shrink comes before the third step nor in the step
   after a shrink. *)
C25_StallShrink ==
  \A i \in 1..Len(stall_log) :
    /\ stall_log[i].shrunk <=>
         (/\ i >= 3
          /\ stall_log[i].positions = stall_log[i - 1].positions
          /\ stall_log[i - 1].positions = stall_log[i - 2].positions
          /\ ~stall_log[i - 1].shrunk)
    /\ (i = 1 \/ stall_log[i].shrunk) => stall_log[i].count = 0
    /\ (i > 1 /\ stall_log[i].positions # stall_log[i - 1].positions)
         => stall_log[i].count = 0
    /\ stall_log[i].shrunk => (i >= 3 /\ ~stall_log[i - 1].shrunk)

(* a module has moved in the second step, the bounds were shrunk in the
   fourth, and the fifth step, with the positions still the same, did not
   shrink *)
C25_Witness ==
  /\ Len(stall_log) = 5
  /\ Len(modules) > 0
  /\ stall_log[2].positions # stall_log[1].positions
  /\ stall_log[4].shrunk
  /\ bounds = ShrunkBy(shrink_before, ShrinkStep)
  /\ stall_log[5].positions = stall_log[4].positions
  /\ ~stall_log[5].shrunk
  /\ stall_log[5].count = 1

(* the registry as choose_best_action leaves it when the module that acted
   last calls it on the registry it saw *)
AfterChoice ==
  [before_act EXCEPT ![LastIdx] = choose_best_action(before_act, LastIdx, bounds).self]

(* C26: choose_best_action has no net effect: on return the calling module
   (position, orientation and every other field) equals the module before
   the call, so the registry is the one before the call, and a second call
   in that state returns the same action and value as the first; the action
   performed is the action recorded. *)
C26_ChooseLeavesStateAlone ==
  (pc = "pass" /\ Acted) =>
    /\ AfterChoice = before_act
    /\ choose_best_action(AfterChoice, LastIdx, bounds).action = step_actions[LastId]
    /\ choose_best_action(AfterChoice, LastIdx, bounds).value
         = choose_best_action(before_act, LastIdx, bounds).value
    /\ applied_actions[LastId] = step_actions[LastId]

(* a module that is not square has gone through the rotation trial and the
   centering trial, both reverted, and has then been centred elsewhere *)
C26_Witness ==
  /\ pc = "pass"
  /\ Acted
  /\ before_act[LastIdx].width # before_act[LastIdx].height
  /\ step_actions[LastId] = "center"
  /\ modules[LastIdx].position # before_act[LastIdx].position

(* shrink_bounds leaves bounds at the floor as they are *)
AtFloor(bnd) == Width(bnd) <= 2 * ShrinkStep \/ Height(bnd) <= 2 * ShrinkStep

(* the module that acted last had no overlap and no area outside *)
LastWasSettled ==
  /\ pc \in {"pass", "main_pass"}
  /\ Acted
  /\ CombinedCost(before_act, LastIdx, bounds) = 0

(* C27: in either variant of the loop, a module whose total overlap and
   outside area are both zero gets the no-op from choose_best_action and is
   left as it was; if all modules are settled when a step starts, the
   registry stays as it was at the start of the step; and from a state with
   all modules settled and the bounds at the shrink floor no step of the run
   changes a module or the bounds. *)
C27_SettledStaysPut ==
  /\ [](LastWasSettled =>
          /\ step_actions[LastId] = None
          /\ applied_actions[LastId] = None
          /\ modules[LastIdx] = before_act[LastIdx])
  /\ [](AllSettled(step_start.modules, step_start.bounds)
          => modules = step_start.modules)
  /\ [][(pc # "idle" /\ AllSettled(modules, bounds) /\ AtFloor(bounds))
          => (modules' = modules /\ bounds' = bounds)]_vars

(* a settled module in bounds at the floor has gone through three steps of
   the stall-count loop, the third calling shrink_bounds, and neither it nor
   the bounds have changed since the run began *)
C27_Witness ==
  /\ pc = "main_pass"
  /\ Len(stall_log) = 3
  /\ stall_log[3].shrunk
  /\ Len(modules) > 0
  /\ AllSettled(modules, bounds)
  /\ AtFloor(bounds)
  /\ bounds = shrink_before
  /\ \A mid \in DOMAIN action_history :
        \A i \in 1..Len(action_history[mid]) : action_history[mid][i] = None

(* what applying action a may change, from module m0 to module m1 *)
ChangesAsActionSays(a, m0, m1) ==
  /\ m1.module_id = m0.module_id
  /\ m1.width = m0.width
  /\ m1.height = m0.height
  /\ a = "rotate" => /\ m1.position = m0.position
                     /\ m1.orientation = Toggle(m0.orientation)
                     /\ m1.orientation # m0.orientation
  /\ a \in MoveActions =>
       /\ m1.orientation = m0.orientation
       /\ \/ /\ m1.position[2] = m0.position[2]
             /\ m1.position[1] \in {m0.position[1] - 1, m0.position[1] + 1}
          \/ /\ m1.position[1] = m0.position[1]
             /\ m1.position[2] \in {m0.position[2] - 1, m0.position[2] + 1}
  /\ a = "center" => m1.orientation = m0.orientation
  /\ a = None => m1 = m0
  /\ a \in MoveActions \cup {"rotate", "center", None}

(* C28: applying a module's chosen action changes only that module: a rotate
   changes only its orientation, a unit move exactly one coordinate of its
   position by exactly 1 and not its orientation, a center only its position,
   and a no-op nothing; every other module and the bounds are as they were
   before the module acted. *)
C28_ActionChangesOnlyActor ==
  (pc = "pass" /\ Acted) =>
    /\ Len(modules) = Len(before_act)
    /\ \A j \in 1..Len(modules) : j # LastIdx => modules[j] = before_act[j]
    /\ bounds = step_start.bounds
    /\ ChangesAsActionSays(applied_actions[LastId], before_act[LastIdx],
                           modules[LastIdx])

(* the second module, two wide, has made a unit move after the first module
   rotated, and the first is as its rotation left it *)
C28_Witness ==
  /\ pc = "pass"
  /\ Acted
  /\ LastIdx = 2
  /\ applied_actions[modules[1].module_id] = "rotate"
  /\ modules[1].orientation = QuarterTurn
  /\ applied_actions[LastId] \in MoveActions
  /\ modules[LastIdx].width = 2
  /\ modules[LastIdx].position # before_act[LastIdx].position

=============================================================================
